---- MODULE Spec2Model ----
(***************************************************************************)
(* Model of the safe-gelato scripts: estimate.ts, the deployment-aware     *)
(* estimation script (unnamed/part_000), sendTxn.ts, index.ts and test.ts. *)
(* One behaviour is one process run (caller = "main") or one call of an    *)
(* exported formatter/transport function (caller = "direct").  Every       *)
(* await of the scripts is a step; what the SDK, the signer, the RPC node  *)
(* and the relayer answer is drawn from small sets.                        *)
(*                                                                         *)
(* JavaScript values are strings: Undefined and Null are tokens, "" is the *)
(* empty string.  Hexadecimal numerals are sequences of one-character      *)
(* strings (<<"0","x","5">> is "0x5").  A JavaScript object is a function  *)
(* whose DOMAIN is its set of keys.                                        *)
(***************************************************************************)
EXTENDS Integers, Sequences, FiniteSets, TLC

\* ---------------------------------------------------------------- bounds
MaxNum == 255

\* ------------------------------------------------------- JavaScript values
Undefined == "<undefined>"
Null == "<null>"

\* Boolean(v): undefined, null and '' are falsy, every other string is truthy
Truthy(v) == v \notin {Undefined, Null, ""}

\* a || b
Or(a, b) == IF Truthy(a) THEN a ELSE b

\* obj[key] / obj.key : undefined when the key is absent
Get(obj, key) == IF key \in DOMAIN obj THEN obj[key] ELSE Undefined

EmptyObject == [k \in {} |-> Undefined]

\* ------------------------------------------------------------- constants
entryPointAddress07 == "0x0000000071727De22E5E9d8BAf0edAc6f37da032"
\* the same address spelled in lower case, and the v0.6 EntryPoint
entryPointLower == "0x0000000071727de22e5e9d8baf0edac6f37da032"
entryPointOther == "0x5FF137D4b0FDCD49DcA30c7CF57E578a026d2789"
EntryPoints == {entryPointAddress07, entryPointLower, entryPointOther}

detectEntryPointVersion(a) == IF a = entryPointAddress07 THEN "v0.7" ELSE "v0.6"

\* ---------------------------------------------------- bigint.toString(16)
HexDigits == <<"0","1","2","3","4","5","6","7","8","9","a","b","c","d","e","f">>

\* mutant of ToString16: every numeral padded to whole bytes' worth of a
\* leading zero digit
RECURSIVE ToString16Padded(_)
ToString16Padded(n) ==
  IF n < 16 THEN <<"0", HexDigits[n + 1]>>
  ELSE ToString16Padded(n \div 16) \o <<HexDigits[(n % 16) + 1]>>

RECURSIVE ToString16(_)
ToString16(n) ==
  IF n < 16 THEN <<HexDigits[n + 1]>>
  ELSE ToString16(n \div 16) \o <<HexDigits[(n % 16) + 1]>>

\* "0x" + n.toString(16)
Hex(n) == <<"0", "x">> \o ToString16(n)

\* ------------------------------------------------------------ input sets
Scripts == {"estimate", "part000", "sendTxn", "index", "test"}
ViemScripts == {"estimate", "part000", "sendTxn"}
EnvVars == {"GELATO_API_KEY", "PRIVATE_KEY", "RPC_URL", "SAFE_ADDRESS"}

Nums == {0, 5, 15, 16, MaxNum}
GasVals == {0, MaxNum}
FactoryVals == {Undefined, "", "0x", "0xFactory"}
FactoryDataVals == {Undefined, "", "0x", "0xFactoryData"}
StubSignature == "0xStub"
SigVals == {"0xSigA", "0xSigB"}

Sender == "0xSafe"

\* what prepareUserOperation may resolve to
Drafts ==
  [sender : {Sender}, nonce : Nums, factory : FactoryVals,
   factoryData : FactoryDataVals, callData : {"0xCall"},
   callGasLimit : GasVals, verificationGasLimit : GasVals,
   preVerificationGas : GasVals, maxFeePerGas : GasVals,
   maxPriorityFeePerGas : GasVals, signature : {StubSignature},
   paymasterAndData : {Undefined}]

\* the operations a direct caller passes: one gas value in every gas field
DirectOps ==
  {d \in Drafts : \A f \in {"callGasLimit", "verificationGasLimit", "preVerificationGas",
                             "maxFeePerGas", "maxPriorityFeePerGas"} :
                    d[f] = d.callGasLimit}

NoOp == [none |-> TRUE]

\* what account.signUserOperation may resolve to: a string, an object with
\* or without a signature, or undefined
SignResults ==
  [type : {"string"}, signature : {""} \cup SigVals]
    \cup [type : {"object"}, signature : {Undefined, ""} \cup SigVals]
    \cup {[type |-> "undefined", signature |-> Undefined]}
NotSigned == [type |-> "none", signature |-> Undefined]

\* what the relayer call may produce: the fetch rejects, the body is not
\* JSON, or the body parses to null or to an object.  A JSON-RPC 2.0
\* response never carries both members, so {result, error} is not drawn.
ResultVals == {"{gas}", "0xTaskId", "", Null}
Bodies ==
  {[type |-> "null", fields |-> EmptyObject],
   [type |-> "object", fields |-> EmptyObject],
   [type |-> "object", fields |-> [error |-> "{code,message}"]]}
    \cup {[type |-> "object", fields |-> [result |-> r]] : r \in ResultVals}
Responses ==
  {[kind |-> "reject", body |-> [type |-> "none", fields |-> EmptyObject]],
   [kind |-> "badjson", body |-> [type |-> "none", fields |-> EmptyObject]]}
    \cup {[kind |-> "json", body |-> b] : b \in Bodies}
NoResponse == [type |-> "undefined", fields |-> EmptyObject]
NotFetched == [kind |-> "none", body |-> NoResponse]

\* the dummy signature and empty fields index.ts hard-codes
DummySignature == "0xfff...1c"

\* ------------------------------------------------------------ formatters
\* JSON.stringify of an object: keys whose value is undefined are dropped
\* (only the string-valued keys can hold undefined)
StringKeys == {"sender", "callData", "signature", "factory", "factoryData", "initCode"}
Stringify(obj) ==
  [k \in {j \in DOMAIN obj : j \in StringKeys => obj[j] # Undefined} |-> obj[k]]

\* JSON.stringify([undefined, entryPoint]) gives [null, entryPoint]
JsonNullOp == [null |-> TRUE]

\* estimate.ts: the v0.7 object, with the conditional spread
FormatEstimate(op) ==
  [sender |-> op.sender,
   nonce |-> Hex(op.nonce),
   callData |-> op.callData,
   maxFeePerGas |-> Hex(op.maxFeePerGas),
   maxPriorityFeePerGas |-> Hex(op.maxPriorityFeePerGas),
   preVerificationGas |-> Hex(op.preVerificationGas),
   signature |-> op.signature,
   callGasLimit |-> Hex(op.callGasLimit),
   verificationGasLimit |-> Hex(op.verificationGasLimit)]
    @@ (IF Truthy(op.factory) /\ op.factory # "0x"
        THEN [factory |-> op.factory, factoryData |-> Or(op.factoryData, "0x")]
        ELSE EmptyObject)

\* part_000: the v0.7 object, then the factory keys assigned when factory exists
FormatEstimateDeploy(op) ==
  LET base == [sender |-> op.sender,
               nonce |-> Hex(op.nonce),
               callData |-> op.callData,
               maxFeePerGas |-> Hex(op.maxFeePerGas),
               maxPriorityFeePerGas |-> Hex(op.maxPriorityFeePerGas),
               preVerificationGas |-> Hex(op.preVerificationGas),
               signature |-> op.signature,
               callGasLimit |-> Hex(op.callGasLimit),
               verificationGasLimit |-> Hex(op.verificationGasLimit)]
  IN IF Truthy(op.factory) /\ op.factory # "0x"
     THEN base @@ [factory |-> op.factory, factoryData |-> Or(op.factoryData, "0x")]
     ELSE base

\* sendTxn.ts: fees and preVerificationGas are the literal "0x0"
FormatSubmission(op) ==
  [sender |-> op.sender,
   nonce |-> Hex(op.nonce),
   callData |-> op.callData,
   maxFeePerGas |-> <<"0", "x", "0">>,
   maxPriorityFeePerGas |-> <<"0", "x", "0">>,
   preVerificationGas |-> <<"0", "x", "0">>,
   signature |-> op.signature,
   callGasLimit |-> Hex(op.callGasLimit),
   verificationGasLimit |-> Hex(op.verificationGasLimit)]
    @@ (IF Truthy(op.factory) /\ op.factory # "0x"
        THEN [factory |-> op.factory, factoryData |-> Or(op.factoryData, "0x")]
        ELSE EmptyObject)

\* index.ts: the object built for estimation
FormatIndex(safeAddress, nonce) ==
  [sender |-> safeAddress,
   nonce |-> Hex(nonce),
   initCode |-> "0x",
   callData |-> "0x",
   signature |-> DummySignature]

\* estimate.ts main: the operation handed to the formatter
SponsorEstimate(draft) ==
  [sender |-> draft.sender, nonce |-> draft.nonce,
   factory |-> draft.factory, factoryData |-> draft.factoryData,
   callData |-> draft.callData, callGasLimit |-> draft.callGasLimit,
   verificationGasLimit |-> draft.verificationGasLimit,
   preVerificationGas |-> draft.preVerificationGas,
   maxFeePerGas |-> draft.maxFeePerGas,
   maxPriorityFeePerGas |-> draft.maxPriorityFeePerGas,
   signature |-> draft.signature, paymasterAndData |-> "0x"]

\* mutant of SponsorBase: the factory fields copied as estimate.ts copies them
SponsorBaseKeepsFactory(draft) == SponsorEstimate(draft)

\* part_000 main: the operation before the deployment decision (no factory keys)
SponsorBase(draft) ==
  [sender |-> draft.sender, nonce |-> draft.nonce,
   factory |-> Undefined, factoryData |-> Undefined,
   callData |-> draft.callData, callGasLimit |-> draft.callGasLimit,
   verificationGasLimit |-> draft.verificationGasLimit,
   preVerificationGas |-> draft.preVerificationGas,
   maxFeePerGas |-> draft.maxFeePerGas,
   maxPriorityFeePerGas |-> draft.maxPriorityFeePerGas,
   signature |-> draft.signature, paymasterAndData |-> "0x"]

\* part_000 main: the undeployed branch copies the draft's factory data when
\* both are truthy
HasFactoryData(draft) == Truthy(draft.factory) /\ Truthy(draft.factoryData)
WithFactory(op, draft) ==
  [op EXCEPT !.factory = draft.factory, !.factoryData = draft.factoryData]

\* mutant of ZeroFees: preVerificationGas left as the SDK estimated it
ZeroFeesKeepsPreVerification(draft) ==
  [draft EXCEPT !.maxFeePerGas = 0, !.maxPriorityFeePerGas = 0,
                !.paymasterAndData = "0x"]

\* sendTxn.ts main: the overrides applied to the draft before signing
ZeroFees(draft) ==
  [draft EXCEPT !.preVerificationGas = 0, !.maxFeePerGas = 0,
                !.maxPriorityFeePerGas = 0, !.paymasterAndData = "0x"]

\* sendTxn.ts main: a signature is taken from a string, or from an object
\* whose signature is truthy
SignatureExtracted(r) ==
  r.type = "string" \/ (r.type = "object" /\ Truthy(r.signature))

\* sendTxn.ts main: userOperation.signature = the signature extracted
SignedOperationKeepsStub(op, r) == op
SignedOperation(op, r) == [op EXCEPT !.signature = r.signature]

\* the transports' .then/.then/.catch chain: responseValues is the parsed
\* body, or stays undefined when the fetch or the parse rejects
ParsedResponse(resp) == IF resp.kind = "json" THEN resp.body ELSE NoResponse

\* responseValues && responseValues['result'] ? result : undefined
ResultOf(responseValues) ==
  IF responseValues.type = "object" /\ Truthy(Get(responseValues.fields, "result"))
  THEN responseValues.fields["result"]
  ELSE Undefined

\* ----------------------------------------------------------------- state
VARIABLES
  script,                 \* which file runs
  caller,                 \* "main": the process run; "direct": a call of the exported function
  env,                    \* the environment variables that are set (non-empty)
  deployed,               \* whether the account contract has code on chain
  pc,                     \* where the run stands
  code,                   \* part_000: what publicClient.getCode returned
  userOperation,          \* the SDK draft (sendTxn.ts mutates it)
  signedUserOp,           \* sendTxn.ts: what signUserOperation returned
  signArg,                \* sendTxn.ts: the operation handed to signUserOperation
  sponsoredUserOperation, \* the operation handed to the formatter
  entryPointAddress,      \* the address handed to the formatter
  netCalls,               \* every network call made so far, in order
  requests,               \* the JSON-RPC requests the scripts' own fetch calls sent
  fetched,                \* how the fetch settled (NotFetched until it does)
  responseValues,         \* the parsed response, undefined until assigned
  ret,                    \* what the exported function returned
  log,                    \* the report lines printed so far (tags)
  err,                    \* the error thrown ("" when none)
  exit                    \* the process exit status ("none" while running)

vars == <<script, caller, env, deployed, pc, code, userOperation, signedUserOp, signArg,
          sponsoredUserOperation, entryPointAddress, netCalls, requests,
          fetched, fetched, responseValues, ret, log, err, exit>>

\* part_000: const isDeployed = code && code !== '0x'
isDeployed == Truthy(code) /\ code # "0x"

\* what getCode answers for the account: undefined or "0x" without code
CodeAnswers == IF deployed THEN {"0x6080"} ELSE {Undefined, "0x"}

\* the variables each script tests before doing anything else
CheckedVars(s) ==
  CASE s \in ViemScripts -> {"GELATO_API_KEY", "PRIVATE_KEY", "RPC_URL"}
    [] s = "index" -> {"GELATO_API_KEY", "SAFE_ADDRESS"}
    [] s = "test" -> {"GELATO_API_KEY"}

\* the variables each script reads
UsedVars(s) ==
  CASE s \in ViemScripts -> {"GELATO_API_KEY", "PRIVATE_KEY", "RPC_URL"}
    [] s = "index" -> {"GELATO_API_KEY", "SAFE_ADDRESS", "RPC_URL"}
    [] s = "test" -> {"GELATO_API_KEY"}

Init ==
  /\ script \in Scripts
  /\ caller \in (IF script \in ViemScripts THEN {"main", "direct"} ELSE {"main"})
  /\ env \in (IF caller = "main" THEN SUBSET UsedVars(script) ELSE {UsedVars(script)})
  /\ deployed \in BOOLEAN
  /\ pc = "start"
  /\ code = Undefined
  /\ userOperation = NoOp
  /\ signedUserOp = NotSigned
  /\ signArg = NoOp
  /\ sponsoredUserOperation = NoOp
  /\ entryPointAddress = entryPointAddress07
  /\ netCalls = <<>>
  /\ requests = <<>>
  /\ fetched = NotFetched
  /\ responseValues = NoResponse
  /\ ret = Undefined
  /\ log = {}
  /\ err = ""
  /\ exit = "none"

\* an error thrown: main().catch / .catch print it and call process.exit(1);
\* a direct call rejects to its caller
Throw(msg) ==
  /\ err' = msg
  /\ pc' = IF caller = "main" THEN "done" ELSE "threw"
  /\ exit' = IF caller = "main" THEN "1" ELSE exit

\* ---------------------------------------------------------------- actions
\* the environment tests at the top of main / testUserOperationWithGelato /
\* testGelatoAPI
CheckEnv ==
  /\ caller = "main" /\ pc = "start"
  /\ IF CheckedVars(script) \subseteq env
     THEN /\ pc' = (CASE script \in ViemScripts -> "resolve"
                      [] script = "index" -> "getNonce"
                      [] script = "test" -> "call")
          /\ UNCHANGED <<err, exit>>
     ELSE Throw("Missing environment variable")
  /\ UNCHANGED <<script, caller, env, deployed, code, userOperation, signedUserOp,
                 signArg,
                 sponsoredUserOperation, entryPointAddress, netCalls, requests,
                 fetched, responseValues, ret, log>>

\* createPublicClient, privateKeyToAccount, await toSafeSmartAccount
Resolve ==
  /\ caller = "main" /\ pc = "resolve"
  /\ netCalls' = Append(netCalls, "rpc:toSafeSmartAccount")
  /\ \/ /\ pc' = IF script = "part000" THEN "getCode" ELSE "prepare"
        /\ UNCHANGED <<err, exit>>
     \/ Throw("toSafeSmartAccount failed")
  /\ UNCHANGED <<script, caller, env, deployed, code, userOperation, signedUserOp,
                 signArg,
                 sponsoredUserOperation, entryPointAddress, requests,
                 fetched, responseValues, ret, log>>

\* part_000: await publicClient.getCode; the bundler getCode that follows
\* reads bundlerClient before its declaration, inside a try whose catch
\* only logs, so it makes no call
GetCode ==
  /\ caller = "main" /\ pc = "getCode" /\ script = "part000"
  /\ netCalls' = Append(netCalls, "rpc:getCode")
  /\ \/ /\ \E c \in CodeAnswers : code' = c
        /\ pc' = "prepare"
        /\ UNCHANGED <<err, exit>>
     \/ /\ Throw("getCode failed")
        /\ UNCHANGED code
  /\ UNCHANGED <<script, caller, env, deployed, userOperation, signedUserOp,
                 signArg,
                 sponsoredUserOperation, entryPointAddress, requests,
                 fetched, responseValues, ret, log>>

\* await bundlerClient.prepareUserOperation
Prepare ==
  /\ caller = "main" /\ pc = "prepare"
  /\ netCalls' = Append(netCalls, "bundler:prepareUserOperation")
  /\ \/ /\ \E d \in Drafts : userOperation' = d
        /\ pc' = "build"
        /\ UNCHANGED <<err, exit>>
     \/ /\ Throw("prepareUserOperation failed")
        /\ UNCHANGED userOperation
  /\ UNCHANGED <<script, caller, env, deployed, code, signedUserOp, signArg,
                 sponsoredUserOperation, entryPointAddress, requests,
                 fetched, responseValues, ret, log>>

\* estimate.ts main: sponsoredUserOperation copies the draft, factory included
BuildEstimate ==
  /\ caller = "main" /\ pc = "build" /\ script = "estimate"
  /\ sponsoredUserOperation' = SponsorEstimate(userOperation)
  /\ pc' = "call"
  /\ UNCHANGED <<script, caller, env, deployed, code, userOperation, signedUserOp,
                 signArg,
                 entryPointAddress, netCalls, requests, fetched, responseValues, ret, log, err, exit>>

\* part_000 main: the factory keys are decided by isDeployed
BuildDeployAware ==
  /\ caller = "main" /\ pc = "build" /\ script = "part000"
  /\ IF ~isDeployed
     THEN IF HasFactoryData(userOperation)
          THEN /\ sponsoredUserOperation' =
                    WithFactory(SponsorBase(userOperation), userOperation)
               /\ pc' = "call"
               /\ UNCHANGED <<err, exit>>
          ELSE /\ Throw("Cannot proceed without factory data for account deployment")
               /\ sponsoredUserOperation' = SponsorBase(userOperation)
     ELSE /\ sponsoredUserOperation' = SponsorBase(userOperation)
          /\ pc' = "call"
          /\ UNCHANGED <<err, exit>>
  /\ UNCHANGED <<script, caller, env, deployed, code, userOperation, signedUserOp,
                 signArg,
                 entryPointAddress, netCalls, requests, fetched, responseValues, ret, log>>

\* sendTxn.ts main: the overrides, then account.signUserOperation is called
BuildSend ==
  /\ caller = "main" /\ pc = "build" /\ script = "sendTxn"
  /\ userOperation' = ZeroFees(userOperation)
  /\ signArg' = userOperation'
  /\ pc' = "sign"
  /\ UNCHANGED <<script, caller, env, deployed, code, signedUserOp,
                 sponsoredUserOperation, entryPointAddress, netCalls, requests,
                 fetched, responseValues, ret, log, err, exit>>

\* sendTxn.ts main: await account.signUserOperation, then the signature is
\* taken from the result or the run throws
Sign ==
  /\ caller = "main" /\ pc = "sign" /\ script = "sendTxn"
  /\ \/ \E r \in SignResults :
          /\ signedUserOp' = r
          /\ IF SignatureExtracted(r)
             THEN /\ userOperation' = SignedOperation(userOperation, r)
                  /\ sponsoredUserOperation' = userOperation'
                  /\ pc' = "call"
                  /\ UNCHANGED <<err, exit>>
             ELSE /\ Throw("Failed to get signature from signUserOperation")
                  /\ UNCHANGED <<userOperation, sponsoredUserOperation>>
     \/ /\ Throw("signUserOperation failed")
        /\ UNCHANGED <<signedUserOp, userOperation, sponsoredUserOperation>>
  /\ UNCHANGED <<script, caller, env, deployed, code, signArg, entryPointAddress,
                 netCalls, requests, fetched, responseValues, ret, log>>

\* index.ts: await entryPoint.getNonce over new JsonRpcProvider(RPC_URL);
\* RPC_URL is not tested, so the call is made whether or not it is set
GetNonce ==
  /\ caller = "main" /\ pc = "getNonce" /\ script = "index"
  /\ netCalls' = Append(netCalls, "rpc:getNonce")
  /\ \/ /\ \E n \in Nums :
             sponsoredUserOperation' = FormatIndex(Sender, n)
        /\ pc' = "call"
        /\ UNCHANGED <<err, exit>>
     \/ /\ Throw("getNonce failed")
        /\ UNCHANGED sponsoredUserOperation
  /\ UNCHANGED <<script, caller, env, deployed, code, userOperation, signedUserOp,
                 signArg,
                 entryPointAddress, requests, fetched, responseValues, ret, log>>

\* a caller of the exported getGasValuesFromGelato / sendUserOperationToGelato
\* passes any operation and any EntryPoint address
Invoke ==
  /\ caller = "direct" /\ pc = "start"
  /\ \E d \in DirectOps : sponsoredUserOperation' = d
  /\ \E a \in EntryPoints : entryPointAddress' = a
  /\ pc' = "call"
  /\ UNCHANGED <<script, caller, env, deployed, code, userOperation, signedUserOp,
                 signArg,
                 netCalls, requests, fetched, responseValues, ret, log, err, exit>>

\* ------------------------------------------------ formatter and transport
\* what JSON.stringify puts in params[0] for the object built (or not built)
WireOp(built, op) == IF built THEN Stringify(op) ELSE JsonNullOp

\* fetch(url, {method: 'POST', body}) is called: the request is on the wire
Post(method, params) ==
  /\ requests' = Append(requests, [method |-> method, params |-> params])
  /\ netCalls' = Append(netCalls, "relayer:" \o method)
  /\ pc' = "fetch"
  /\ UNCHANGED <<err, exit>>

\* estimate.ts getGasValuesFromGelato up to the fetch: without a v0.7
\* address userOpForEstimation stays undefined and is sent as null
CallEstimate ==
  /\ pc = "call" /\ script = "estimate"
  /\ LET version == detectEntryPointVersion(entryPointAddress)
     IN Post("eth_estimateUserOperationGas",
             <<WireOp(version = "v0.7", FormatEstimate(sponsoredUserOperation)),
               entryPointAddress>>)
  /\ UNCHANGED <<script, caller, env, deployed, code, userOperation, signedUserOp,
                 signArg,
                 sponsoredUserOperation, entryPointAddress, fetched, responseValues, ret, log>>

\* part_000 getGasValuesFromGelato up to the fetch: without a v0.7 address
\* Object.keys(userOpForEstimation) throws a TypeError before the fetch
CallDeployAware ==
  /\ pc = "call" /\ script = "part000"
  /\ LET version == detectEntryPointVersion(entryPointAddress)
     IN IF version = "v0.7"
        THEN Post("eth_estimateUserOperationGas",
                  <<WireOp(TRUE, FormatEstimateDeploy(sponsoredUserOperation)),
                    entryPointAddress>>)
        ELSE /\ Throw("TypeError: Cannot convert undefined or null to object")
             /\ UNCHANGED <<requests, netCalls>>
  /\ UNCHANGED <<script, caller, env, deployed, code, userOperation, signedUserOp,
                 signArg,
                 sponsoredUserOperation, entryPointAddress, fetched, responseValues, ret, log>>

\* sendTxn.ts sendUserOperationToGelato up to the fetch: no version test
CallSend ==
  /\ pc = "call" /\ script = "sendTxn"
  /\ Post("eth_sendUserOperation",
          <<WireOp(TRUE, FormatSubmission(sponsoredUserOperation)), entryPointAddress>>)
  /\ UNCHANGED <<script, caller, env, deployed, code, userOperation, signedUserOp,
                 signArg,
                 sponsoredUserOperation, entryPointAddress, fetched, responseValues, ret, log>>

\* index.ts: the estimation request built in place
CallIndex ==
  /\ pc = "call" /\ script = "index"
  /\ Post("eth_estimateUserOperationGas",
          <<WireOp(TRUE, sponsoredUserOperation), entryPointAddress07>>)
  /\ UNCHANGED <<script, caller, env, deployed, code, userOperation, signedUserOp,
                 signArg,
                 sponsoredUserOperation, entryPointAddress, fetched, responseValues, ret, log>>

\* test.ts: eth_chainId with no parameters
CallTest ==
  /\ pc = "call" /\ script = "test"
  /\ Post("eth_chainId", <<>>)
  /\ UNCHANGED <<script, caller, env, deployed, code, userOperation, signedUserOp,
                 signArg,
                 sponsoredUserOperation, entryPointAddress, fetched, responseValues, ret, log>>

\* mutant of ReceiveExported: the promise chain without its catch, so a
\* rejected fetch or an unparseable body rejects the function
ReceiveExportedNoCatch(s) ==
  /\ pc = "fetch" /\ script = s
  /\ \E resp \in Responses :
       /\ fetched' = resp
       /\ responseValues' = ParsedResponse(resp)
       /\ IF resp.kind = "json"
          THEN /\ ret' = ResultOf(responseValues')
               /\ pc' = "returned"
               /\ UNCHANGED <<err, exit>>
          ELSE /\ Throw("fetch failed")
               /\ UNCHANGED ret
  /\ UNCHANGED <<script, caller, env, deployed, code, userOperation, signedUserOp,
                 signArg,
                 sponsoredUserOperation, entryPointAddress, netCalls, requests, log>>

\* the exported functions after the fetch settles: the chain's catch logs a
\* rejection, the result (when truthy) is what the function returns
ReceiveExported(s) ==
  /\ pc = "fetch" /\ script = s
  /\ \E resp \in Responses :
       /\ fetched' = resp
       /\ responseValues' = ParsedResponse(resp)
       /\ ret' = ResultOf(responseValues')
  /\ pc' = "returned"
  /\ UNCHANGED <<script, caller, env, deployed, code, userOperation, signedUserOp,
                 signArg,
                 sponsoredUserOperation, entryPointAddress, netCalls, requests,
                 log, err, exit>>

ReceiveEstimate == ReceiveExported("estimate")
ReceiveDeployAware == ReceiveExported("part000")
ReceiveSend == ReceiveExported("sendTxn")

\* mutant of ReportEstimate: a falsy rvGas makes main call the estimation
\* function once more instead of throwing
ReportEstimateRetry(s) ==
  /\ caller = "main" /\ pc = "returned" /\ script = s
  /\ IF ~Truthy(ret)
     THEN /\ pc' = "call"
          /\ UNCHANGED <<log, err, exit>>
     ELSE /\ log' = log \cup {"success"}
          /\ pc' = "done"
          /\ exit' = "0"
          /\ UNCHANGED err
  /\ UNCHANGED <<script, caller, env, deployed, code, userOperation, signedUserOp,
                 signArg,
                 sponsoredUserOperation, entryPointAddress, netCalls, requests,
                 fetched, responseValues, ret>>

\* estimate.ts / part_000 main after the call: a falsy rvGas is thrown
ReportEstimate(s) ==
  /\ caller = "main" /\ pc = "returned" /\ script = s
  /\ IF ~Truthy(ret)
     THEN /\ Throw("Failed to get gas estimation from Gelato")
          /\ UNCHANGED log
     ELSE /\ log' = log \cup {"success"}
          /\ pc' = "done"
          /\ exit' = "0"
          /\ UNCHANGED err
  /\ UNCHANGED <<script, caller, env, deployed, code, userOperation, signedUserOp,
                 signArg,
                 sponsoredUserOperation, entryPointAddress, netCalls, requests,
                 fetched, responseValues, ret>>

ReportGas == ReportEstimate("estimate")
ReportGasDeployAware == ReportEstimate("part000")

\* sendTxn.ts main after the call: both branches only log, main resolves
ReportSend ==
  /\ caller = "main" /\ pc = "returned" /\ script = "sendTxn"
  /\ log' = log \cup {IF Truthy(ret) THEN "success" ELSE "failed"}
  /\ pc' = "done"
  /\ exit' = "0"
  /\ UNCHANGED <<script, caller, env, deployed, code, userOperation, signedUserOp,
                 signArg,
                 sponsoredUserOperation, entryPointAddress, netCalls, requests,
                 fetched, responseValues, ret, err>>

\* index.ts / test.ts after their fetch settles: a rejection, an unparseable
\* body or a null body throws (exit 1); an error returns early, and the
\* promise's then prints the completion line and exits 0
ReceiveInline(s) ==
  /\ caller = "main" /\ pc = "fetch" /\ script = s
  /\ \E resp \in Responses :
       LET body == ParsedResponse(resp)
       IN /\ fetched' = resp
          /\ responseValues' = body
          /\ IF resp.kind # "json" \/ body.type = "null"
             THEN /\ Throw("fetch or response.json() failed")
                  /\ UNCHANGED log
             ELSE /\ log' = log \cup {"completed"}
                       \cup (IF Truthy(Get(body.fields, "error")) THEN {"error"}
                             ELSE IF Truthy(Get(body.fields, "result")) THEN {"success"}
                             ELSE {})
                  /\ pc' = "done"
                  /\ exit' = "0"
                  /\ UNCHANGED err
  /\ UNCHANGED <<script, caller, env, deployed, code, userOperation, signedUserOp,
                 signArg,
                 sponsoredUserOperation, entryPointAddress, netCalls, requests, ret>>

ReceiveIndex == ReceiveInline("index")
ReceiveTest == ReceiveInline("test")

Next ==
  \/ CheckEnv \/ Resolve \/ GetCode \/ Prepare
  \/ BuildEstimate \/ BuildDeployAware \/ BuildSend \/ Sign
  \/ GetNonce \/ Invoke
  \/ CallEstimate \/ CallDeployAware \/ CallSend \/ CallIndex \/ CallTest
  \/ ReceiveEstimate \/ ReceiveDeployAware \/ ReceiveSend
  \/ ReportGas \/ ReportGasDeployAware \/ ReportSend
  \/ ReceiveIndex \/ ReceiveTest

Spec == Init /\ [][Next]_vars

\* ================================================================ claims
\* the UserOperation objects put on the wire so far
WireOps == {requests[i].params[1] : i \in {j \in 1..Len(requests) : Len(requests[j].params) > 0}}
HasKey(op, k) == k \in DOMAIN op

\* a run of the deployment-aware estimation script
DeployAwareRun == script = "part000" /\ caller = "main"

\* C1: in the deployment-aware estimation run, when isDeployed is true the
\* UserOperation sent for estimation has neither a factory nor a factoryData
\* key, whatever the SDK draft carries.
C1_DeployedOmitsFactory ==
  (DeployAwareRun /\ isDeployed) =>
    \A op \in WireOps : ~HasKey(op, "factory") /\ ~HasKey(op, "factoryData")

\* C1 witness: a deployed account whose draft carries factory data, and the
\* estimation request has been sent
C1_Witness ==
  /\ DeployAwareRun /\ isDeployed
  /\ requests # <<>>
  /\ userOperation.factory = "0xFactory"
  /\ userOperation.factoryData = "0xFactoryData"

\* C2: in the deployment-aware estimation run, when isDeployed is false either
\* the request sent carries factory and factoryData copied from the draft, or
\* the run aborts with an error and sends no estimation request.
C2_UndeployedCopiesOrAborts ==
  (DeployAwareRun /\ ~isDeployed) =>
    /\ \A op \in WireOps :
         /\ HasKey(op, "factory") /\ HasKey(op, "factoryData")
         /\ op.factory = userOperation.factory
         /\ op.factoryData = userOperation.factoryData
    /\ (pc = "done" /\ requests = <<>>) => (err # "" /\ exit = "1")

\* C3: every UserOperation a formatter of estimate.ts, part_000 or sendTxn.ts
\* puts on the wire has factory and factoryData together or not at all, and
\* when they are present the account is undeployed.
C3_FactoryPairImpliesUndeployed ==
  script \in ViemScripts =>
    \A op \in WireOps :
      /\ HasKey(op, "factory") <=> HasKey(op, "factoryData")
      /\ HasKey(op, "factory") => ~deployed

\* the exported function has settled: it returned or it threw
Settled == pc \in {"returned", "threw", "done"} /\ fetched.kind # "none"

\* C4: whenever the parsed response has a result field, the exported
\* functions return exactly that value.
C4_ResultReturnedUnmodified ==
  (script \in ViemScripts /\ Settled
     /\ responseValues.type = "object" /\ HasKey(responseValues.fields, "result")) =>
    ret = responseValues.fields["result"]

\* the relayer call failed: an error member, a rejected fetch, or a body
\* that is not JSON
CallFailed ==
  \/ fetched.kind \in {"reject", "badjson"}
  \/ fetched.kind = "json" /\ HasKey(fetched.body.fields, "error")

\* C5: whenever the relayer call fails (error member, rejected fetch,
\* unparseable body) the exported functions do not throw: they return
\* undefined, the same for the three kinds of failure.
C5_FailureReturnsUndefined ==
  (script \in ViemScripts /\ CallFailed) =>
    /\ pc # "threw"
    /\ ret = Undefined
    /\ pc = "returned" => err = ""

\* C5 witness: each kind of failure has returned to a direct caller
C5_Witness ==
  /\ script \in ViemScripts /\ caller = "direct" /\ pc = "returned"
  /\ fetched.kind = "reject"

\* C6: with an EntryPoint address that is not recognised as v0.7, both
\* getGasValuesFromGelato variants raise an error and send no request.
C6_UnknownVersionFailsLoudly ==
  (script \in {"estimate", "part000"}
     /\ detectEntryPointVersion(entryPointAddress) = "v0.6") =>
    /\ requests = <<>>
    /\ pc \notin {"start", "call"} => (pc = "threw" /\ err # "")

\* C7: in the send run every eth_sendUserOperation request is sent after
\* signUserOperation has completed, and carries exactly the signature that
\* signing gave.
C7_SignedBeforeSent ==
  (script = "sendTxn" /\ caller = "main") =>
    \A op \in WireOps :
      /\ signedUserOp.type # "none"
      /\ HasKey(op, "signature")
      /\ op.signature = signedUserOp.signature

\* C7 witness: a request sent with the signature taken from an object result
C7_Witness ==
  /\ script = "sendTxn" /\ caller = "main"
  /\ requests # <<>>
  /\ signedUserOp = [type |-> "object", signature |-> "0xSigB"]

\* C8: in the send run a signing result of unexpected shape aborts the run
\* with no request sent, and a request is sent only with a non-empty
\* signature taken from the signing result.
C8_BadSignatureNeverSent ==
  (script = "sendTxn" /\ caller = "main") =>
    /\ (signedUserOp.type = "undefined"
          \/ (signedUserOp.type = "object" /\ ~Truthy(signedUserOp.signature))) =>
         (requests = <<>> /\ err # "" /\ exit = "1")
    /\ \A op \in WireOps :
         /\ HasKey(op, "signature")
         /\ Truthy(op.signature)
         /\ op.signature = signedUserOp.signature

\* C9: in every script a missing environment variable that the script uses
\* aborts the run before any network call, with a non-zero exit status.
C9_MissingEnvAbortsBeforeNetwork ==
  (caller = "main" /\ ~(UsedVars(script) \subseteq env)) =>
    /\ netCalls = <<>>
    /\ pc = "done" => exit = "1"

\* the value of a hexadecimal digit
DigitValue(c) == CHOOSE v \in 0..15 : HexDigits[v + 1] = c
IsHexDigit(c) == \E v \in 0..15 : HexDigits[v + 1] = c

\* the number a "0x..." numeral denotes (parseInt(s, 16) / BigInt(s))
RECURSIVE DigitsValue(_)
DigitsValue(ds) ==
  IF ds = <<>> THEN 0
  ELSE 16 * DigitsValue(SubSeq(ds, 1, Len(ds) - 1)) + DigitValue(ds[Len(ds)])
Decode(s) == DigitsValue(SubSeq(s, 3, Len(s)))

\* "0x", then one hexadecimal digit or more, the first one 0 only when alone
Canonical(s) ==
  /\ Len(s) >= 3 /\ s[1] = "0" /\ s[2] = "x"
  /\ \A i \in 3..Len(s) : IsHexDigit(s[i])
  /\ Len(s) > 3 => s[3] # "0"

NumericFields(s) ==
  IF s = "sendTxn" THEN {"nonce", "callGasLimit", "verificationGasLimit"}
  ELSE {"nonce", "callGasLimit", "verificationGasLimit", "maxFeePerGas",
        "maxPriorityFeePerGas", "preVerificationGas"}

\* C10: every numeric field the formatters emit is "0x" followed by the
\* hexadecimal digits of the number without a leading zero digit ("0x0" for
\* zero), and decodes back to the number.
C10_NumericFieldsCanonicalHex ==
  script \in ViemScripts =>
    \A op \in WireOps : \A f \in NumericFields(script) :
      HasKey(op, f) =>
        /\ Canonical(op[f])
        /\ Decode(op[f]) = sponsoredUserOperation[f]
        /\ sponsoredUserOperation[f] = 0 => op[f] = <<"0", "x", "0">>

\* C10 witness: a request whose nonce has several digits and whose
\* callGasLimit is zero, next to a single-digit field
C10_Witness ==
  /\ script \in ViemScripts
  /\ \E op \in WireOps :
       /\ HasKey(op, "nonce")
       /\ sponsoredUserOperation.nonce = 16
       /\ op.nonce = <<"0", "x", "1", "0">>
       /\ op.callGasLimit = <<"0", "x", "0">>
       /\ sponsoredUserOperation.verificationGasLimit = MaxNum

\* the network calls of one invocation, in the order the code awaits them
StageCalls ==
  IF caller = "direct"
  THEN <<IF script = "sendTxn" THEN "relayer:eth_sendUserOperation"
         ELSE "relayer:eth_estimateUserOperationGas">>
  ELSE CASE script = "estimate" ->
              <<"rpc:toSafeSmartAccount", "bundler:prepareUserOperation",
                "relayer:eth_estimateUserOperationGas">>
         [] script = "part000" ->
              <<"rpc:toSafeSmartAccount", "rpc:getCode", "bundler:prepareUserOperation",
                "relayer:eth_estimateUserOperationGas">>
         [] script = "sendTxn" ->
              <<"rpc:toSafeSmartAccount", "bundler:prepareUserOperation",
                "relayer:eth_sendUserOperation">>
         [] script = "index" -> <<"rpc:getNonce", "relayer:eth_estimateUserOperationGas">>
         [] script = "test" -> <<"relayer:eth_chainId">>

IsPrefix(a, b) == Len(a) <= Len(b) /\ a = SubSeq(b, 1, Len(a))

\* a call has failed: an error was thrown, or the relayer call failed
SomeCallFailed == err # "" \/ CallFailed

\* C11: within one invocation the remote calls are made one after the other
\* in the order of the stages, each at most once; the script's own fetch
\* sends at most one request; a step taken after a failed call makes no
\* further network call.
C11_SequentialNoRetry ==
  [][/\ IsPrefix(netCalls', StageCalls')
     /\ Len(requests') <= 1
     /\ pc \in {"fetch"} => netCalls' = netCalls
     /\ SomeCallFailed => (netCalls' = netCalls /\ requests' = requests)]_vars

\* C11 witness: the relayer call of a send run failed and the run went on
\* to its end with that one request
C11_Witness ==
  /\ script = "sendTxn" /\ caller = "main" /\ pc = "done"
  /\ CallFailed
  /\ Len(requests) = 1
  /\ Len(netCalls) = 3

\* C12: every UserOperation the estimation runs and the send run put on
\* the wire carries maxFeePerGas and maxPriorityFeePerGas equal to "0x0",
\* whatever fees the SDK draft holds.
C12_FeesZeroOnWire ==
  (script \in ViemScripts /\ caller = "main") =>
    \A op \in WireOps :
      /\ HasKey(op, "maxFeePerGas") /\ HasKey(op, "maxPriorityFeePerGas")
      /\ op.maxFeePerGas = <<"0", "x", "0">>
      /\ op.maxPriorityFeePerGas = <<"0", "x", "0">>

\* the fields of the submitted request that the signed operation also has
SignedWireFields ==
  {"nonce", "callGasLimit", "verificationGasLimit", "preVerificationGas",
   "maxFeePerGas", "maxPriorityFeePerGas"}

\* C13: in the send run the request submitted agrees with the operation
\* handed to signUserOperation on sender, nonce, callData and every gas and
\* fee field; the three fields the formatter writes as "0x0" were zero when
\* the operation was signed.
C13_SignedEqualsSubmitted ==
  (script = "sendTxn" /\ caller = "main") =>
    \A op \in WireOps :
      /\ signArg # NoOp
      /\ op.sender = signArg.sender
      /\ op.callData = signArg.callData
      /\ \A f \in SignedWireFields : Decode(op[f]) = signArg[f]
      /\ signArg.preVerificationGas = 0
      /\ signArg.maxFeePerGas = 0
      /\ signArg.maxPriorityFeePerGas = 0

\* C13 witness: a request was submitted whose signed operation has a
\* two-digit nonce and a non-zero callGasLimit
C13_Witness ==
  /\ script = "sendTxn" /\ caller = "main"
  /\ requests # <<>>
  /\ signArg # NoOp
  /\ signArg.nonce = MaxNum
  /\ signArg.callGasLimit = MaxNum
  /\ \E op \in WireOps : op.callGasLimit = <<"0", "x", "f", "f">>

\* the relayer call settled without a result member
NoResultReturned ==
  /\ fetched.kind # "none"
  /\ ~(fetched.kind = "json" /\ HasKey(fetched.body.fields, "result"))

\* C14: in every script that sends a UserOperation the process exits 0 only
\* if its relayer call returned a result; a run whose relayer call gave an error, failed on the
\* network or carried neither member exits non-zero and prints no success
\* report.
C14_ExitZeroOnlyWithResult ==
  (caller = "main" /\ pc = "done" /\ script # "test") =>
    /\ exit = "0" => (fetched.kind = "json" /\ HasKey(fetched.body.fields, "result"))
    /\ NoResultReturned => (exit = "1" /\ "success" \notin log)

====
